---- MODULE Spec2Model ----
(***************************************************************************)
(* Model of Firmware/LEDApi.h: the HTTP REST handlers of the LED           *)
(* controller.  Every handler runs to completion inside one callback of    *)
(* the single-threaded web server, so a handler is one action.  The State  *)
(* Facade (LEDController) and the Persistence Facade (NVSManager) are      *)
(* collaborators whose headers are included by LEDApi.h but whose bodies   *)
(* are not part of the source tree; they are modelled from the design      *)
(* document.                                                               *)
(***************************************************************************)
EXTENDS Integers, Sequences, FiniteSets, TLC

VARIABLES
    overflowWraps,  \* build property: as<uint8_t>() wraps (old ArduinoJson 6) or yields 0
    live,           \* State Facade: power, brightness, effect, per-effect parameters
    durable,        \* Persistence Facade: the persisted snapshot
    req,            \* the request handled last: endpoint, method, body
    calls,          \* facade calls issued while handling req, in order
    sent,           \* responses sent while handling req, in order
    server,         \* the argument begin was called with: "unset" before the call
    routes,         \* the transport's routing table: handlers in registration order
    paramsPosted,   \* history: some params POST has succeeded since boot
    repeat          \* history: req repeats the request handled just before it

vars == <<overflowWraps, live, durable, req, calls, sent, server, routes, paramsPosted, repeat>>

----------------------------------------------------------------------------
\* Bounds of the model

NumEffects == 2      \* size of the effect roster reported by getNumEffects
MaxPairs == 2        \* largest number of key/value pairs in a params body

----------------------------------------------------------------------------
\* JSON values (ArduinoJson JsonVariant): one record shape for every type

J(t, n, b, s, o) == [t |-> t, n |-> n, b |-> b, s |-> s, o |-> o]
Jint(n) == J("int", n, FALSE, "", <<>>)
Jbool(b) == J("bool", 0, b, "", <<>>)
Jstr(s) == J("str", 0, FALSE, s, <<>>)
Jnull == J("null", 0, FALSE, "", <<>>)
Jobj(o) == J("object", 0, FALSE, "", o)
Jarr(o) == J("array", 0, FALSE, "", o)

\* A JSON object is the ordered list of its <<key, value>> members.
\* A body that is not an object converts to the null object (no members).
containsKey(obj, k) == \E i \in 1..Len(obj) : obj[i][1] = k

size(obj) == Len(obj)

\* obj[k]: the member's value; an unbound (null) variant when absent
Member(obj, k) ==
    IF containsKey(obj, k)
    THEN obj[CHOOSE i \in 1..Len(obj) : obj[i][1] = k][2]
    ELSE Jnull

\* the number a JSON string parses to (0 when it is not a number)
ParseNumber(s) == IF s = "7" THEN 7 ELSE 0

\* the integer a variant holds before it is narrowed
AsInteger(j) ==
    CASE j.t = "int" -> j.n
      [] j.t = "bool" -> (IF j.b THEN 1 ELSE 0)
      [] j.t = "str" -> ParseNumber(j.s)
      [] OTHER -> 0

\* variant.as<uint8_t>(): a value outside 0..255 becomes 0, or wraps modulo
\* 256 in library versions without overflow handling
AsUint8(j) ==
    LET n == AsInteger(j) IN
    IF n \in 0..255 THEN n
    ELSE IF overflowWraps THEN n % 256 ELSE 0

\* variant.as<bool>()
AsBool(j) ==
    CASE j.t = "bool" -> j.b
      [] j.t = "int" -> j.n # 0
      [] j.t = "null" -> FALSE
      [] j.t = "str" -> (IF overflowWraps THEN ParseNumber(j.s) # 0 ELSE TRUE)
      [] OTHER -> TRUE

\* mutant: any truthy `save` counts
OrFalseTruthy(j) == AsBool(j)

\* variant | false: the value when the variant is a boolean, else the default
OrFalse(j) == IF j.t = "bool" THEN j.b ELSE FALSE

----------------------------------------------------------------------------
\* State Facade (LEDController)

EffectNames == <<"Rainbow", "Fire", "Solid", "Wave", "Comet", "Sparkle">>

\* the ordered parameter names of an effect
ParamNames(e) == IF e = 0 THEN <<"speed", "color">> ELSE <<"speed">>

DefaultParams(e) == [i \in 1..Len(ParamNames(e)) |-> <<ParamNames(e)[i], 1>>]

getNumEffects == NumEffects

getEffectName(l) == EffectNames[l.effect + 1]

getParams(l) == l.params[l.effect]

setEffect(l, id) == [l EXCEPT !.effect = id]

\* a key that is not a parameter of the active effect is ignored
setParam(l, key, value) ==
    [l EXCEPT !.params[l.effect] =
        [i \in 1..Len(@) |-> IF @[i][1] = key THEN <<key, AsInteger(value)>> ELSE @[i]]]

setPower(l, on) == [l EXCEPT !.power = on]

setBrightness(l, v) == [l EXCEPT !.brightness = v]

getStatusJson(l) ==
    << <<"power", Jbool(l.power)>>,
       <<"brightness", Jint(l.brightness)>>,
       <<"effect", Jint(l.effect)>>,
       <<"effectName", Jstr(getEffectName(l))>> >>

getEffectsJson(l) ==
    << <<"effects", Jarr([i \in 1..getNumEffects |-> <<EffectNames[i], i - 1>>])>> >>

getParamsJson(l) ==
    << <<"effect", Jint(l.effect)>>, <<"params", Jobj(getParams(l))>> >>

----------------------------------------------------------------------------
\* Persistence Facade (NVSManager)

saveEffect(d, id) == [d EXCEPT !.effect = id]

saveParams(d, blob) == [d EXCEPT !.params = blob]

saveBrightness(d, v) == [d EXCEPT !.brightness = v]

\* serializeJson of an object: its members in document order
serializeJson(j) == j.o

----------------------------------------------------------------------------
\* One handler execution: the facades' state plus what the handler did

Call(op, key, n, blob) == [op |-> op, key |-> key, n |-> n, blob |-> blob]

Exec(l, d) == [live |-> l, durable |-> d, calls |-> <<>>, sent |-> <<>>]

Logged(st, c) == [st EXCEPT !.calls = Append(@, c)]

DoSetEffect(st, id) ==
    Logged([st EXCEPT !.live = setEffect(@, id)], Call("setEffect", "", id, <<>>))

DoSetParam(st, kv) ==
    Logged([st EXCEPT !.live = setParam(@, kv[1], kv[2])],
           Call("setParam", kv[1], AsInteger(kv[2]), <<>>))

DoSetPower(st, on) ==
    Logged([st EXCEPT !.live = setPower(@, on)],
           Call("setPower", "", IF on THEN 1 ELSE 0, <<>>))

DoSetBrightness(st, v) ==
    Logged([st EXCEPT !.live = setBrightness(@, v)], Call("setBrightness", "", v, <<>>))

DoGet(st, op) == Logged(st, Call(op, "", 0, <<>>))

DoSaveEffect(st, id) ==
    Logged([st EXCEPT !.durable = saveEffect(@, id)], Call("saveEffect", "", id, <<>>))

DoSaveParams(st, blob) ==
    Logged([st EXCEPT !.durable = saveParams(@, blob)], Call("saveParams", "", 0, blob))

DoSaveBrightness(st, v) ==
    Logged([st EXCEPT !.durable = saveBrightness(@, v)], Call("saveBrightness", "", v, <<>>))

----------------------------------------------------------------------------
\* Helpers of LEDApi

addCorsHeaders(res) ==
    [res EXCEPT !.headers = @ \o
        << <<"Access-Control-Allow-Origin", "HTTP_CORS_ORIGIN">>,
           <<"Access-Control-Allow-Methods", "GET, POST, OPTIONS">>,
           <<"Access-Control-Allow-Headers", "Content-Type">> >>]

beginResponse(code, ctype, body) ==
    [code |-> code, ctype |-> ctype, body |-> body, headers |-> <<>>, after |-> 0]

\* request->send(res); `after` records how many facade calls preceded it
send(st, res) == [st EXCEPT !.sent = Append(@, [res EXCEPT !.after = Len(st.calls)])]

sendJson(st, code, doc) ==
    send(st, addCorsHeaders(beginResponse(code, "application/json", doc)))

\* mutant: the error reply is sent without the CORS headers
sendErrorNoCors(st, code, message) ==
    send(st, beginResponse(code, "application/json", << <<"error", Jstr(message)>> >>))

sendError(st, code, message) == sendJson(st, code, << <<"error", Jstr(message)>> >>)

----------------------------------------------------------------------------
\* Route handlers

handleStatus(st) == sendJson(DoGet(st, "getStatusJson"), 200, getStatusJson(st.live))

handleEffects(st) == sendJson(DoGet(st, "getEffectsJson"), 200, getEffectsJson(st.live))

\* mutant: reading the parameters also writes them to durable storage
handleGetParamsSaving(st) ==
    sendJson(DoSaveParams(DoGet(st, "getParamsJson"),
                          serializeJson(Member(getParamsJson(st.live), "params"))),
             200, getParamsJson(st.live))

handleGetParams(st) == sendJson(DoGet(st, "getParamsJson"), 200, getParamsJson(st.live))

\* mutant: the preflight reply carries no CORS headers
handleOptionsNoCors(st) == send(st, beginResponse(200, "", <<>>))

handleOptions(st) == send(st, addCorsHeaders(beginResponse(200, "", <<>>)))

EffectReply(st, effectId) ==
    LET s1 == DoGet(st, "getEffectName")
    IN  sendJson(s1, 200, << <<"status", Jstr("ok")>>,
                             <<"effect", Jint(effectId)>>,
                             <<"effectName", Jstr(getEffectName(s1.live))>> >>)

\* mutant: the name is read before setEffect is applied
handleSetEffectStaleName(st, jsonObj) ==
    IF ~containsKey(jsonObj, "id")
    THEN sendError(st, 400, "Missing 'id' field")
    ELSE LET effectId == AsUint8(Member(jsonObj, "id"))
             s0 == DoGet(st, "getNumEffects")
             name == getEffectName(st.live)
             s1 == DoGet(DoSaveEffect(DoSetEffect(s0, effectId), effectId), "getEffectName")
         IN  IF effectId >= getNumEffects
             THEN sendError(s0, 400, "Invalid effect ID")
             ELSE sendJson(s1, 200, << <<"status", Jstr("ok")>>,
                                       <<"effect", Jint(effectId)>>,
                                       <<"effectName", Jstr(name)>> >>)

\* mutant: the durable write is skipped when the stored id already matches
handleSetEffectSkipSame(st, jsonObj) ==
    IF ~containsKey(jsonObj, "id")
    THEN sendError(st, 400, "Missing 'id' field")
    ELSE LET effectId == AsUint8(Member(jsonObj, "id"))
             s0 == DoGet(st, "getNumEffects")
             s1 == DoSetEffect(s0, effectId)
             s2 == IF st.durable.effect = effectId THEN s1 ELSE DoSaveEffect(s1, effectId)
         IN  IF effectId >= getNumEffects
             THEN sendError(s0, 400, "Invalid effect ID")
             ELSE EffectReply(s2, effectId)

\* mutant: the id is persisted before it is applied
handleSetEffectSaveFirst(st, jsonObj) ==
    IF ~containsKey(jsonObj, "id")
    THEN sendError(st, 400, "Missing 'id' field")
    ELSE LET effectId == AsUint8(Member(jsonObj, "id"))
             s0 == DoGet(st, "getNumEffects")
         IN  IF effectId >= getNumEffects
             THEN sendError(s0, 400, "Invalid effect ID")
             ELSE EffectReply(DoSetEffect(DoSaveEffect(s0, effectId), effectId), effectId)

\* mutant: the id is applied but never persisted
handleSetEffectNoSave(st, jsonObj) ==
    IF ~containsKey(jsonObj, "id")
    THEN sendError(st, 400, "Missing 'id' field")
    ELSE LET effectId == AsUint8(Member(jsonObj, "id"))
             s0 == DoGet(st, "getNumEffects")
         IN  IF effectId >= getNumEffects
             THEN sendError(s0, 400, "Invalid effect ID")
             ELSE EffectReply(DoSetEffect(s0, effectId), effectId)

handleSetEffect(st, jsonObj) ==
    IF ~containsKey(jsonObj, "id")
    THEN sendError(st, 400, "Missing 'id' field")
    ELSE LET effectId == AsUint8(Member(jsonObj, "id"))
             s0 == DoGet(st, "getNumEffects")
         IN  IF effectId >= getNumEffects
             THEN sendError(s0, 400, "Invalid effect ID")
             ELSE EffectReply(DoSaveEffect(DoSetEffect(s0, effectId), effectId), effectId)

\* mutant: keys the active effect does not have are filtered out
RECURSIVE ApplyParamsKnownOnly(_, _, _)
ApplyParamsKnownOnly(st, jsonObj, i) ==
    IF i > size(jsonObj) THEN st
    ELSE IF \E k \in 1..Len(getParams(st.live)) : getParams(st.live)[k][1] = jsonObj[i][1]
         THEN ApplyParamsKnownOnly(DoSetParam(st, jsonObj[i]), jsonObj, i + 1)
         ELSE ApplyParamsKnownOnly(st, jsonObj, i + 1)

\* for (JsonPair kv : jsonObj) setParam(kv.key(), kv.value())
RECURSIVE ApplyParams(_, _, _)
ApplyParams(st, jsonObj, i) ==
    IF i > size(jsonObj) THEN st
    ELSE ApplyParams(DoSetParam(st, jsonObj[i]), jsonObj, i + 1)

\* the full parameter set re-read from the State Facade, serialized and saved
SaveCurrentParams(st) ==
    LET s1 == DoGet(st, "getParamsJson")
        paramsDoc == getParamsJson(s1.live)
        paramsJson == serializeJson(Member(paramsDoc, "params"))
    IN  DoSaveParams(s1, paramsJson)

\* mutant: the submitted pairs are saved instead of the re-read set
handleSetParamsPartial(st, jsonObj) ==
    IF size(jsonObj) = 0
    THEN sendError(st, 400, "Empty parameters")
    ELSE LET s1 == DoGet(ApplyParams(st, jsonObj, 1), "getParamsJson")
             submitted == [i \in 1..size(jsonObj) |->
                              <<jsonObj[i][1], AsInteger(jsonObj[i][2])>>]
         IN  sendJson(DoSaveParams(s1, submitted), 200,
                      << <<"status", Jstr("ok")>>, <<"updated", Jint(size(jsonObj))>> >>)

\* mutant: the empty-object check is missing
handleSetParamsNoCheck(st, jsonObj) ==
    sendJson(SaveCurrentParams(ApplyParams(st, jsonObj, 1)), 200,
             << <<"status", Jstr("ok")>>, <<"updated", Jint(size(jsonObj))>> >>)

handleSetParams(st, jsonObj) ==
    IF size(jsonObj) = 0
    THEN sendError(st, 400, "Empty parameters")
    ELSE sendJson(SaveCurrentParams(ApplyParams(st, jsonObj, 1)), 200,
                  << <<"status", Jstr("ok")>>, <<"updated", Jint(size(jsonObj))>> >>)

\* mutant: the return after sendError is missing
handlePowerNoReturn(st, jsonObj) ==
    LET s0 == IF ~containsKey(jsonObj, "on")
              THEN sendError(st, 400, "Missing 'on' field") ELSE st
        powerOn == AsBool(Member(jsonObj, "on"))
    IN  sendJson(DoSetPower(s0, powerOn), 200,
                 << <<"status", Jstr("ok")>>, <<"power", Jbool(powerOn)>> >>)

handlePower(st, jsonObj) ==
    IF ~containsKey(jsonObj, "on")
    THEN sendError(st, 400, "Missing 'on' field")
    ELSE LET powerOn == AsBool(Member(jsonObj, "on"))
         IN  sendJson(DoSetPower(st, powerOn), 200,
                      << <<"status", Jstr("ok")>>, <<"power", Jbool(powerOn)>> >>)

\* mutant: the check for `value` is missing
handleBrightnessNoCheck(st, jsonObj) ==
    LET brightness == AsUint8(Member(jsonObj, "value"))
        s1 == DoSetBrightness(st, brightness)
        shouldSave == OrFalse(Member(jsonObj, "save"))
        s2 == IF shouldSave THEN DoSaveBrightness(s1, brightness) ELSE s1
    IN  sendJson(s2, 200, << <<"status", Jstr("ok")>>,
                             <<"brightness", Jint(brightness)>> >>)

\* mutant: brightness is persisted on every change
handleBrightnessAlwaysSave(st, jsonObj) ==
    IF ~containsKey(jsonObj, "value")
    THEN sendError(st, 400, "Missing 'value' field")
    ELSE LET brightness == AsUint8(Member(jsonObj, "value"))
             s2 == DoSaveBrightness(DoSetBrightness(st, brightness), brightness)
         IN  sendJson(s2, 200, << <<"status", Jstr("ok")>>,
                                  <<"brightness", Jint(brightness)>> >>)

\* mutant: the value is kept in a wide integer, not narrowed to 8 bits
handleBrightnessWide(st, jsonObj) ==
    IF ~containsKey(jsonObj, "value")
    THEN sendError(st, 400, "Missing 'value' field")
    ELSE LET brightness == AsInteger(Member(jsonObj, "value"))
             s1 == DoSetBrightness(st, brightness)
             shouldSave == OrFalse(Member(jsonObj, "save"))
             s2 == IF shouldSave THEN DoSaveBrightness(s1, brightness) ELSE s1
         IN  sendJson(s2, 200, << <<"status", Jstr("ok")>>,
                                  <<"brightness", Jint(brightness)>> >>)

handleBrightness(st, jsonObj) ==
    IF ~containsKey(jsonObj, "value")
    THEN sendError(st, 400, "Missing 'value' field")
    ELSE LET brightness == AsUint8(Member(jsonObj, "value"))
             s1 == DoSetBrightness(st, brightness)
             shouldSave == OrFalse(Member(jsonObj, "save"))
             s2 == IF shouldSave THEN DoSaveBrightness(s1, brightness) ELSE s1
         IN  sendJson(s2, 200, << <<"status", Jstr("ok")>>,
                                  <<"brightness", Jint(brightness)>> >>)

----------------------------------------------------------------------------
\* Requests a client can send

IdInputs == {-1, 256} \cup 0..NumEffects

EffectBodies == {<<>>} \cup {<< <<"id", Jint(n)>> >> : n \in IdInputs}

OnInputs == {Jbool(TRUE), Jbool(FALSE), Jint(1), Jint(0), Jstr("abc"), Jnull}

PowerBodies == {<<>>} \cup {<< <<"on", j>> >> : j \in OnInputs}

BrightnessInputs == {Jint(100), Jint(300)}

SaveInputs == {Jbool(TRUE), Jbool(FALSE), Jint(1)}

BrightnessBodies ==
    {<<>>, << <<"save", Jbool(TRUE)>> >>}
    \cup {<< <<"value", v>> >> : v \in BrightnessInputs}
    \cup {<< <<"value", v>>, <<"save", s>> >> : v \in BrightnessInputs, s \in SaveInputs}

\* "hue" is a parameter of no effect
ParamPairs ==
    {<<"speed", Jint(1)>>, <<"speed", Jint(2)>>, <<"color", Jint(2)>>, <<"hue", Jint(2)>>}

DistinctKeys(obj) == \A i, k \in 1..Len(obj) : obj[i][1] = obj[k][1] => i = k

ParamsBodies ==
    {obj \in UNION {[1..n -> ParamPairs] : n \in 0..MaxPairs} :
        DistinctKeys(obj)}

----------------------------------------------------------------------------
\* Route registration

Route(uri, method, handler) == [uri |-> uri, method |-> method, handler |-> handler]

\* server->on(uri, method, fn) and server->addHandler(h) append to the table
on(table, uri, method, handler) == Append(table, Route(uri, method, handler))

\* the JSON body handlers are bound to the POST endpoints the source documents
addJsonHandler(table, uri, handler) == Append(table, Route(uri, "POST", handler))

\* mutant: the null check is missing
beginNoNullCheck(srv) ==
    LET r1 == on(<<>>, "/api/led/*", "OPTIONS", "handleOptions")
        r2 == on(r1, "/api/led/status", "GET", "handleStatus")
        r3 == on(r2, "/api/led/effects", "GET", "handleEffects")
        r4 == on(r3, "/api/led/params", "GET", "handleGetParams")
        r5 == addJsonHandler(r4, "/api/led/effect", "handleSetEffect")
        r6 == addJsonHandler(r5, "/api/led/params", "handleSetParams")
        r7 == addJsonHandler(r6, "/api/led/power", "handlePower")
    IN  addJsonHandler(r7, "/api/led/brightness", "handleBrightness")

\* LEDApi::begin: the routing table it leaves behind
begin(srv) ==
    IF srv = "null" THEN <<>>
    ELSE LET r1 == on(<<>>, "/api/led/*", "OPTIONS", "handleOptions")
             r2 == on(r1, "/api/led/status", "GET", "handleStatus")
             r3 == on(r2, "/api/led/effects", "GET", "handleEffects")
             r4 == on(r3, "/api/led/params", "GET", "handleGetParams")
             r5 == addJsonHandler(r4, "/api/led/effect", "handleSetEffect")
             r6 == addJsonHandler(r5, "/api/led/params", "handleSetParams")
             r7 == addJsonHandler(r6, "/api/led/power", "handlePower")
         IN  addJsonHandler(r7, "/api/led/brightness", "handleBrightness")

ApiPaths ==
    {"/api/led/status", "/api/led/effects", "/api/led/params", "/api/led/effect",
     "/api/led/power", "/api/led/brightness"}

\* a trailing * matches every path under the prefix
Matches(route, method, path) ==
    /\ route.method = method
    /\ IF route.uri = "/api/led/*" THEN path \in ApiPaths ELSE route.uri = path

Matching(table, method, path) == {i \in 1..Len(table) : Matches(table[i], method, path)}

\* the first registered handler that can handle the request, if there is one
Resolve(table, method, path) ==
    LET m == Matching(table, method, path)
    IN  {table[i].handler : i \in {k \in m : \A x \in m : k <= x}}

RunHandler(handler, st, body) ==
    CASE handler = "handleOptions" -> handleOptions(st)
      [] handler = "handleStatus" -> handleStatus(st)
      [] handler = "handleEffects" -> handleEffects(st)
      [] handler = "handleGetParams" -> handleGetParams(st)
      [] handler = "handleSetEffect" -> handleSetEffect(st, body)
      [] handler = "handleSetParams" -> handleSetParams(st, body)
      [] handler = "handlePower" -> handlePower(st, body)
      [] handler = "handleBrightness" -> handleBrightness(st, body)

----------------------------------------------------------------------------
\* The web server dispatches one request to its handler, which runs to
\* completion and leaves the facades in the state it produced.

Dispatch(method, path, body, result) ==
    \E st \in {result} :
        /\ req' = [method |-> method, path |-> path, body |-> body]
        /\ live' = st.live
        /\ durable' = st.durable
        /\ calls' = st.calls
        /\ sent' = st.sent
        /\ paramsPosted' = (paramsPosted \/ (method = "POST" /\ path = "/api/led/params"
                                             /\ \E i \in 1..Len(st.sent) : st.sent[i].code = 200))
        /\ repeat' = (req = [method |-> method, path |-> path, body |-> body])
        /\ UNCHANGED <<overflowWraps, server, routes>>

\* a request reaches a handler only through the routing table
Serve(method, path, bodies) ==
    \E handler \in Resolve(routes, method, path) :
        \E body \in bodies :
            Dispatch(method, path, body, RunHandler(handler, Exec(live, durable), body))

\* startup: begin is called once, with the transport handle or without one
Begin ==
    /\ server = "unset"
    /\ \E srv \in {"null", "ok"} :
        /\ server' = srv
        /\ routes' = begin(srv)
    /\ UNCHANGED <<overflowWraps, live, durable, req, calls, sent, paramsPosted, repeat>>

Options == \E path \in {"/api/led/status", "/api/led/effect"} : Serve("OPTIONS", path, {<<>>})

GetStatus == Serve("GET", "/api/led/status", {<<>>})

GetEffects == Serve("GET", "/api/led/effects", {<<>>})

GetParams == Serve("GET", "/api/led/params", {<<>>})

PostEffect == Serve("POST", "/api/led/effect", EffectBodies)

PostParams == Serve("POST", "/api/led/params", ParamsBodies)

PostPower == Serve("POST", "/api/led/power", PowerBodies)

PostBrightness == Serve("POST", "/api/led/brightness", BrightnessBodies)

\* Boot: the State Facade initializes from the persisted snapshot.
Init ==
    /\ overflowWraps \in BOOLEAN
    /\ \E e \in 0..(NumEffects - 1) :
        /\ live = [power |-> TRUE, brightness |-> 100, effect |-> e,
                   params |-> [x \in 0..(NumEffects - 1) |-> DefaultParams(x)]]
        /\ durable = [effect |-> e, brightness |-> 100, params |-> DefaultParams(e)]
    /\ req = [method |-> "BOOT", path |-> "", body |-> <<>>]
    /\ calls = <<>>
    /\ sent = <<>>
    /\ server = "unset"
    /\ routes = <<>>
    /\ paramsPosted = FALSE
    /\ repeat = FALSE

Next ==
    \/ Begin
    \/ Options
    \/ GetStatus
    \/ GetEffects
    \/ GetParams
    \/ PostEffect
    \/ PostParams
    \/ PostPower
    \/ PostBrightness

Spec == Init /\ [][Next]_vars

TypeOK ==
    /\ live.effect \in 0..(NumEffects - 1)
    /\ live.brightness \in 0..255
    /\ Len(sent) <= 1

----------------------------------------------------------------------------
\* Vocabulary of the properties

SaveOps == {"saveEffect", "saveParams", "saveBrightness"}

SetterOps == {"setEffect", "setParam", "setPower", "setBrightness"}

IsPost(r, path) == r.method = "POST" /\ r.path = path

CallsOf(cs, op) == {i \in 1..Len(cs) : cs[i].op = op}

OpsIn(cs, ops) == {cs[i].op : i \in {k \in 1..Len(cs) : cs[k].op \in ops}}

Answered(sn, code) == Len(sn) = 1 /\ sn[1].code = code

IsErrorReply(sn) ==
    /\ Answered(sn, 400)
    /\ Len(sn[1].body) = 1
    /\ sn[1].body[1][1] = "error"
    /\ sn[1].body[1][2].t = "str"

IntField(r, k) == containsKey(r.body, k) /\ Member(r.body, k).t = "int"

ValidId(r) == IntField(r, "id") /\ Member(r.body, "id").n \in 0..(getNumEffects - 1)

----------------------------------------------------------------------------
\* C1: every effect POST whose id is an integer outside 0 <= id < numEffects
\* is answered 400 with an error body, without setEffect and without any
\* persistence call.
C1_InvalidIdRejected ==
    (IsPost(req, "/api/led/effect") /\ IntField(req, "id") /\ ~ValidId(req))
        => /\ IsErrorReply(sent)
           /\ CallsOf(calls, "setEffect") = {}
           /\ OpsIn(calls, SaveOps) = {}

\* C2: a params POST with n >= 1 pairs calls setParam once per pair, in
\* order, then re-reads the parameter set and calls saveParams exactly once
\* with the full current parameter set of the active effect.
C2_ParamsForwardedThenSavedOnce ==
    (IsPost(req, "/api/led/params") /\ size(req.body) > 0)
        => LET n == size(req.body) IN
           /\ Len(calls) = n + 2
           /\ \A i \in 1..n :
                calls[i] = Call("setParam", req.body[i][1], AsInteger(req.body[i][2]), <<>>)
           /\ calls[n + 1].op = "getParamsJson"
           /\ calls[n + 2].op = "saveParams"
           /\ calls[n + 2].blob = getParams(live)
           /\ durable.params = getParams(live)
           /\ Len(calls[n + 2].blob) = Len(ParamNames(live.effect))
           /\ \A i \in 1..Len(ParamNames(live.effect)) :
                calls[n + 2].blob[i][1] = ParamNames(live.effect)[i]

\* the saved blob holds a parameter the request did not mention
C2_Witness ==
    /\ IsPost(req, "/api/led/params")
    /\ size(req.body) = 1
    /\ Len(calls) = 3
    /\ calls[3].op = "saveParams"
    /\ \E i \in 1..Len(calls[3].blob) : ~containsKey(req.body, calls[3].blob[i][1])
    /\ \E i \in 1..Len(calls[3].blob) : calls[3].blob[i][2] = 2

\* C3: a brightness POST with `value` calls setBrightness exactly once;
\* saveBrightness is called exactly once with the same value iff `save` is
\* the boolean true; otherwise nothing is persisted and the durable snapshot
\* keeps its previous value while the live brightness changes.
C3_Step ==
    (IsPost(req', "/api/led/brightness") /\ containsKey(req'.body, "value"))
        => LET v == Member(req'.body, "value")
               wantSave == (Member(req'.body, "save") = Jbool(TRUE))
           IN
           /\ Cardinality(CallsOf(calls', "setBrightness")) = 1
           /\ \A i \in CallsOf(calls', "setBrightness") :
                /\ calls'[i].n = AsUint8(v)
                /\ (v.t = "int" /\ v.n \in 0..255) => calls'[i].n = v.n
                /\ live'.brightness = calls'[i].n
           /\ Cardinality(CallsOf(calls', "saveBrightness")) = (IF wantSave THEN 1 ELSE 0)
           /\ \A i \in CallsOf(calls', "saveBrightness") :
                /\ calls'[i].n = live'.brightness
                /\ durable'.brightness = calls'[i].n
           /\ OpsIn(calls', SaveOps) \subseteq {"saveBrightness"}
           /\ ~wantSave => durable' = durable
           /\ Answered(sent', 200)

C3_BrightnessSaveOptIn == [][C3_Step]_vars

\* a preview: the live brightness moved, the durable one did not
C3_Witness ==
    /\ IsPost(req, "/api/led/brightness")
    /\ containsKey(req.body, "value")
    /\ Member(req.body, "save") = Jint(1)
    /\ live.brightness = 100
    /\ durable.brightness # 100
    /\ OpsIn(calls, SaveOps) = {}

\* C4: an effect POST with 0 <= id < numEffects calls setEffect(id) once and
\* saveEffect(id) once, and answers 200 with {status, effect: id, effectName}
\* where effectName is the name of the newly selected effect.
C4_ValidEffectAppliedSavedEchoed ==
    (IsPost(req, "/api/led/effect") /\ ValidId(req))
        => LET id == Member(req.body, "id").n IN
           /\ CallsOf(calls, "setEffect") # {}
           /\ Cardinality(CallsOf(calls, "setEffect")) = 1
           /\ Cardinality(CallsOf(calls, "saveEffect")) = 1
           /\ \A i \in CallsOf(calls, "setEffect") \cup CallsOf(calls, "saveEffect") :
                calls[i].n = id
           /\ OpsIn(calls, SaveOps) = {"saveEffect"}
           /\ live.effect = id
           /\ durable.effect = id
           /\ Answered(sent, 200)
           /\ sent[1].body = << <<"status", Jstr("ok")>>,
                                <<"effect", Jint(id)>>,
                                <<"effectName", Jstr(EffectNames[id + 1])>> >>

C4_Witness ==
    /\ IsPost(req, "/api/led/effect")
    /\ ValidId(req)
    /\ Member(req.body, "id").n = 1
    /\ Answered(sent, 200)
    /\ Member(sent[1].body, "effectName") = Jstr("Fire")
    /\ ~repeat

\* C5: a params POST with an empty object is answered 400 with an error
\* body, calls neither facade and leaves live and durable state unchanged.
C5_Step ==
    (IsPost(req', "/api/led/params") /\ size(req'.body) = 0)
        => /\ IsErrorReply(sent')
           /\ calls' = <<>>
           /\ live' = live
           /\ durable' = durable

C5_EmptyParamsRejected == [][C5_Step]_vars

C5_Witness ==
    /\ IsPost(req, "/api/led/params")
    /\ size(req.body) = 0
    /\ Answered(sent, 400)
    /\ paramsPosted

\* C6: a power POST without `on`, a brightness POST without `value` and an
\* effect POST without `id` are answered 400 with {"error": message} before
\* any State Facade setter is called; live and durable state are unchanged.
MissingField(r) ==
    \/ IsPost(r, "/api/led/power") /\ ~containsKey(r.body, "on")
    \/ IsPost(r, "/api/led/brightness") /\ ~containsKey(r.body, "value")
    \/ IsPost(r, "/api/led/effect") /\ ~containsKey(r.body, "id")

C6_Step ==
    MissingField(req')
        => /\ IsErrorReply(sent')
           /\ OpsIn(calls', SetterOps \cup SaveOps) = {}
           /\ live' = live
           /\ durable' = durable

C6_MissingFieldRejected == [][C6_Step]_vars

\* a brightness POST that carries save: true but no value
C6_Witness ==
    /\ IsPost(req, "/api/led/brightness")
    /\ ~containsKey(req.body, "value")
    /\ containsKey(req.body, "save")
    /\ Answered(sent, 400)

\* C7: a power POST whose `on` is present but not a boolean is answered 400
\* and setPower is not invoked.
C7_NonBooleanOnRejected ==
    (IsPost(req, "/api/led/power") /\ containsKey(req.body, "on")
        /\ Member(req.body, "on").t # "bool")
        => /\ Answered(sent, 400)
           /\ CallsOf(calls, "setPower") = {}

\* C8: once a params POST has succeeded, the persisted parameter blob equals
\* the complete current parameter set of the active effect, also after a
\* later effect POST selects another effect.
C8_BlobTracksActiveEffect == paramsPosted => durable.params = getParams(live)

\* C9: persistence calls occur only in a successful effect POST (saveEffect
\* only), a successful params POST (saveParams only) and a brightness POST
\* with save = true (saveBrightness only); every other request, a power POST
\* with any body included, leaves the durable snapshot unchanged.
PolicySaves(r, sn) ==
    IF ~Answered(sn, 200) THEN {}
    ELSE IF IsPost(r, "/api/led/effect") THEN {"saveEffect"}
    ELSE IF IsPost(r, "/api/led/params") THEN {"saveParams"}
    ELSE IF IsPost(r, "/api/led/brightness") /\ Member(r.body, "save") = Jbool(TRUE)
         THEN {"saveBrightness"}
    ELSE {}

C9_Step ==
    LET saves == OpsIn(calls', SaveOps) IN
    /\ saves = PolicySaves(req', sent')
    /\ \A op \in saves : Cardinality(CallsOf(calls', op)) = 1
    /\ "saveEffect" \notin saves => durable'.effect = durable.effect
    /\ "saveParams" \notin saves => durable'.params = durable.params
    /\ "saveBrightness" \notin saves => durable'.brightness = durable.brightness
    /\ IsPost(req', "/api/led/power") => (saves = {} /\ durable' = durable)

C9_PersistOnlyAtPolicyPoints == [][C9_Step]_vars

\* power was switched off after a value other than the boot one was saved
C9_Witness ==
    /\ IsPost(req, "/api/led/power")
    /\ Answered(sent, 200)
    /\ ~live.power
    /\ OpsIn(calls, SaveOps) = {}
    /\ durable.brightness # 100

\* C10: repeating a successful mutating request with the same body right
\* away gives the same response, the same facade calls with the same
\* arguments, and leaves live and durable state as the first call left them.
C10_Step ==
    (req' = req /\ req.method = "POST" /\ Answered(sent, 200))
        => /\ sent' = sent
           /\ calls' = calls
           /\ live' = live
           /\ durable' = durable

C10_Idempotent == [][C10_Step]_vars

\* a repeated effect POST that changed the effect the first time
C10_Witness ==
    /\ repeat
    /\ req.method = "POST"
    /\ Answered(sent, 200)
    /\ OpsIn(calls, SaveOps) # {}

\* C11: an OPTIONS request on a path under /api/led/ is answered 200 with an
\* empty body and the CORS headers, calls neither facade and leaves live and
\* durable state unchanged.
HasCors(res) ==
    /\ \E i \in 1..Len(res.headers) : res.headers[i][1] = "Access-Control-Allow-Origin"
    /\ \E i \in 1..Len(res.headers) :
        res.headers[i] = <<"Access-Control-Allow-Methods", "GET, POST, OPTIONS">>
    /\ \E i \in 1..Len(res.headers) :
        res.headers[i] = <<"Access-Control-Allow-Headers", "Content-Type">>

C11_Step ==
    (req'.method = "OPTIONS")
        => /\ Answered(sent', 200)
           /\ sent'[1].body = <<>>
           /\ HasCors(sent'[1])
           /\ calls' = <<>>
           /\ live' = live
           /\ durable' = durable

C11_PreflightTouchesNothing == [][C11_Step]_vars

C11_Witness ==
    /\ req.method = "OPTIONS"
    /\ req.path = "/api/led/effect"
    /\ Answered(sent, 200)
    /\ paramsPosted

\* C12: every request dispatched to a handler ends with exactly one response,
\* on the error paths as on the success paths.
C12_ExactlyOneResponse ==
    /\ req.method # "BOOT" => Len(sent) = 1
    /\ req.method = "BOOT" => sent = <<>>

\* an error path that answered once
C12_Witness ==
    /\ IsPost(req, "/api/led/power")
    /\ ~containsKey(req.body, "on")
    /\ Len(sent) = 1
    /\ sent[1].code = 400

\* C13: every response sent, success, error or preflight, carries the three
\* CORS headers.
C13_EveryResponseHasCors == \A i \in 1..Len(sent) : HasCors(sent[i])

C13_Witness ==
    /\ IsErrorReply(sent)
    /\ Len(sent[1].headers) = 3
    /\ HasCors(sent[1])

\* C14: begin with a null transport registers nothing; begin with a transport
\* registers exactly the eight routes of the route table, one handler per
\* (path, method) pair and no pair bound to two handlers.
RouteTable ==
    {<<"OPTIONS", "/api/led/*", "handleOptions">>,
     <<"GET", "/api/led/status", "handleStatus">>,
     <<"GET", "/api/led/effects", "handleEffects">>,
     <<"GET", "/api/led/params", "handleGetParams">>,
     <<"POST", "/api/led/effect", "handleSetEffect">>,
     <<"POST", "/api/led/params", "handleSetParams">>,
     <<"POST", "/api/led/power", "handlePower">>,
     <<"POST", "/api/led/brightness", "handleBrightness">>}

Corresponds(save, set) ==
    \/ save.op = "saveEffect" /\ set.op = "setEffect" /\ set.n = save.n
    \/ save.op = "saveBrightness" /\ set.op = "setBrightness" /\ set.n = save.n
    \/ save.op = "saveParams" /\ set.op = "setParam"

C15_SetThenSaveThenReply ==
    LET setters == {i \in 1..Len(calls) : calls[i].op \in SetterOps}
        saves == {i \in 1..Len(calls) : calls[i].op \in SaveOps}
    IN  /\ \A s \in saves : \A t \in setters : t < s
        /\ \A s \in saves : \E t \in setters : Corresponds(calls[s], calls[t])
        /\ \A i \in 1..Len(sent) : \A c \in 1..Len(calls) : c <= sent[i].after
        /\ (\E i \in 1..Len(sent) : sent[i].code # 200) => setters \cup saves = {}

C15_Witness ==
    /\ IsPost(req, "/api/led/brightness")
    /\ Len(calls) = 2
    /\ calls[1].op = "setBrightness"
    /\ calls[2].op = "saveBrightness"
    /\ Answered(sent, 200)
    /\ sent[1].after = 2

\* C16: a brightness POST with a numeric value is never rejected for its
\* magnitude: it is answered 200, and one value v in 0..255 is passed to
\* setBrightness, to saveBrightness when save is true, and echoed in the
\* body; live and durable brightness are in 0..255 in every state.
C16_BrightnessCoerced ==
    /\ live.brightness \in 0..255
    /\ durable.brightness \in 0..255
    /\ (IsPost(req, "/api/led/brightness") /\ IntField(req, "value")) =>
        /\ Answered(sent, 200)
        /\ \E v \in 0..255 :
            /\ Member(sent[1].body, "brightness") = Jint(v)
            /\ live.brightness = v
            /\ \A i \in 1..Len(calls) :
                 calls[i].op \in {"setBrightness", "saveBrightness"} => calls[i].n = v
            /\ CallsOf(calls, "setBrightness") # {}
            /\ Member(req.body, "save") = Jbool(TRUE) => durable.brightness = v

\* 300 was accepted and persisted as an 8-bit value
C16_Witness ==
    /\ IsPost(req, "/api/led/brightness")
    /\ Member(req.body, "value") = Jint(300)
    /\ Member(req.body, "save") = Jbool(TRUE)
    /\ Answered(sent, 200)
    /\ durable.brightness = live.brightness
    /\ live.brightness # 100

\* C17: a non-empty params body is not pre-filtered: every pair, also one
\* whose key is no parameter of the active effect, is forwarded to setParam,
\* the reply is 200, saveParams is called once and `updated` is the number
\* of pairs submitted.
C17_ParamsNotFiltered ==
    (IsPost(req, "/api/led/params") /\ size(req.body) > 0) =>
        /\ Answered(sent, 200)
        /\ \A i \in 1..size(req.body) :
             \E c \in CallsOf(calls, "setParam") : calls[c].key = req.body[i][1]
        /\ Cardinality(CallsOf(calls, "setParam")) = size(req.body)
        /\ Cardinality(CallsOf(calls, "saveParams")) = 1
        /\ sent[1].body = << <<"status", Jstr("ok")>>, <<"updated", Jint(size(req.body))>> >>

\* two pairs submitted, one of them unknown to the active effect
C17_Witness ==
    /\ IsPost(req, "/api/led/params")
    /\ size(req.body) = 2
    /\ containsKey(req.body, "hue")
    /\ \A k \in 1..Len(getParams(live)) : getParams(live)[k][1] # "hue"
    /\ Answered(sent, 200)
    /\ Member(sent[1].body, "updated") = Jint(2)

\* C18: from a boot state whose live and persisted effect ids agree, after
\* every completed request the persisted effect id equals the State Facade's
\* current effect id and is smaller than numEffects.
C18_EffectIdInSync ==
    /\ durable.effect = live.effect
    /\ live.effect \in 0..(getNumEffects - 1)

C18_Witness ==
    /\ IsPost(req, "/api/led/effect")
    /\ Member(req.body, "id") = Jint(1)
    /\ Answered(sent, 200)
    /\ ~repeat
    /\ paramsPosted
    /\ durable.effect = 1

\* C19: the three GET endpoints are read-only: no setter and no save is
\* called, live and durable state are unchanged, and a GET repeated with no
\* request in between returns the same response.
C19_Step ==
    (req'.method = "GET")
        => /\ OpsIn(calls', SetterOps \cup SaveOps) = {}
           /\ live' = live
           /\ durable' = durable
           /\ Answered(sent', 200)
           /\ (req = req' => sent' = sent)

C19_GetsReadOnly == [][C19_Step]_vars

C19_Witness ==
    /\ req.method = "GET"
    /\ req.path = "/api/led/params"
    /\ repeat
    /\ Answered(sent, 200)
    /\ paramsPosted

====
